---- MODULE Spec2Model ----
(***************************************************************************)
(* FormsService of the DeTrash API (src/src/services/forms.service.ts and  *)
(* its older variant src/unnamed/part_001) as a state machine.             *)
(*                                                                         *)
(* The store (Form rows, Document rows) and the log of StorageGateway      *)
(* calls are the shared state.  Every service method is an async function: *)
(* it runs as a task whose position (pc) advances from one await to the    *)
(* next, one action per resumption.  A collaborator call that is awaited   *)
(* either returns or fails; a failure rejects the method's promise.        *)
(*                                                                         *)
(* The step that starts a call also performs the method's first lookup     *)
(* (the user for createForm, the form for the others): the call writes     *)
(* nothing before it, and the users table is never written.  Spec runs the *)
(* calls one at a time; SpecSubmit runs one createForm on an empty store   *)
(* over a wider set of inputs.                                             *)
(***************************************************************************)
EXTENDS Integers, Sequences, FiniteSets, TLC

(* ------------------------------ bounds --------------------------------- *)
\* longest invoicesFileName list a submission carries
MaxInvoices == 2
\* number of service calls started in one behaviour of Spec
MaxCalls == 3

(* ----------------------------- constants ------------------------------- *)
Null == "<null>"
Tasks == {"t1", "t2"}

\* enum ResidueType, in declaration order
ResidueOrder == <<"GLASS", "METAL", "ORGANIC", "PAPER", "PLASTIC">>
ResidueTypes == {ResidueOrder[i] : i \in 1..Len(ResidueOrder)}

\* the two profile types createForm and the aggregates name
RECYCLER == "RECYCLER"
WASTE_GENERATOR == "WASTE_GENERATOR"
\* a profile type that is neither
HODLER == "HODLER"

\* MessagesHelper keys, used as the kind of the exception thrown
USER_NOT_FOUND == "User not found"
USER_DOES_NOT_HAS_PERMISSION_TO_UPLOAD == "User do not have permission to submit files"
FORM_NOT_FOUND == "Form not found"

\* UserDirectory: the users table, which no method of FormsService writes
Users ==
    { [id |-> "u1", authUserId |-> "auth-r", profileType |-> RECYCLER, email |-> "r@detrash"],
      [id |-> "u2", authUserId |-> "auth-w", profileType |-> WASTE_GENERATOR, email |-> "w@detrash"],
      [id |-> "u3", authUserId |-> "auth-h", profileType |-> HODLER, email |-> "h@detrash"] }
\* auth identities a caller can present; "auth-x" belongs to no user
AuthIds == {"auth-r", "auth-w", "auth-h", "auth-x"}

NoRow == [absent |-> TRUE]

(* ------------------------------- state --------------------------------- *)
VARIABLES
    forms,      \* table Form: sequence of rows in insertion order
    documents,  \* table Document: sequence of rows in insertion order
    s3Calls,    \* every S3Service.createPreSignedObjectUrl call, in dispatch order
    pc,         \* task -> where the async method is suspended
    call,       \* task -> the method running and its arguments
    loc,        \* task -> the method's local variables
    ret,        \* task -> how the last call ended: value returned or exception thrown
    effects,    \* task -> rows written and storage calls made by the current call
    calls       \* number of calls started

vars == <<forms, documents, s3Calls, pc, call, loc, ret, effects, calls>>

NoEffects == [forms |-> 0, documents |-> 0, s3 |-> 0]
NoCall == [op |-> "none"]
NoLoc == [none |-> TRUE]
NoRet == [kind |-> "none"]

Init ==
    /\ forms = <<>>
    /\ documents = <<>>
    /\ s3Calls = <<>>
    /\ pc = [t \in Tasks |-> "idle"]
    /\ call = [t \in Tasks |-> NoCall]
    /\ loc = [t \in Tasks |-> NoLoc]
    /\ ret = [t \in Tasks |-> NoRet]
    /\ effects = [t \in Tasks |-> NoEffects]
    /\ calls = 0

(* ------------------------- pure helpers -------------------------------- *)
\* JavaScript truthiness of an optional string
Truthy(s) == s # Null /\ s # ""

RECURSIVE SumSeq(_)
SumSeq(s) == IF s = <<>> THEN 0 ELSE s[1] + SumSeq(Tail(s))

RECURSIVE SelectSeqBy(_, _)
\* the subsequence of s whose elements are in the set keep
SelectSeqBy(s, keep) ==
    IF s = <<>> THEN <<>>
    ELSE (IF s[1] \in keep THEN <<s[1]>> ELSE <<>>) \o SelectSeqBy(Tail(s), keep)

(* ------------------------- UserDirectory ------------------------------- *)
\* UsersService.findUserByAuthUserId: the user, or NoRow when NotFound is thrown
findUserByAuthUserId(authUserId) ==
    IF \E u \in Users : u.authUserId = authUserId
    THEN CHOOSE u \in Users : u.authUserId = authUserId
    ELSE NoRow

\* UsersService.findUserByUserId
findUserByUserId(userId) ==
    IF \E u \in Users : u.id = userId
    THEN CHOOSE u \in Users : u.id = userId
    ELSE NoRow

(* ------------------------- StorageGateway ------------------------------ *)
DefaultBucket == "detrash-private"
publicBucket == "detrash-public"

BucketOf(c) == IF c.bucket = Null THEN DefaultBucket ELSE c.bucket
Origin(bucket) == "https://" \o bucket \o ".s3.amazonaws.com"

\* the storage-assigned object key of a call
S3FileName(c) ==
    (IF c.basePath = Null THEN c.residueType ELSE c.basePath) \o "/" \o c.fileName

\* the parts of the pre-signed URL issued for the n-th call of the log
S3UrlParts(c, n) ==
    [origin |-> Origin(BucketOf(c)),
     pathname |-> "/" \o S3FileName(c),
     search |-> "?X-Amz-Signature=" \o ToString(n)]

UrlString(p) == p.origin \o p.pathname \o p.search

\* what S3Service.createPreSignedObjectUrl resolves to for the n-th call
createPreSignedObjectUrl(n) ==
    [fileName |-> S3FileName(s3Calls[n]),
     createUrl |-> UrlString(S3UrlParts(s3Calls[n], n))]

\* new URL(u), for a URL this gateway issued
URL(u) ==
    LET n == CHOOSE k \in 1..Len(s3Calls) : UrlString(S3UrlParts(s3Calls[k], k)) = u
    IN  S3UrlParts(s3Calls[n], n)

S3Call(fileName, residueType, basePath, bucket) ==
    [fileName |-> fileName, residueType |-> residueType,
     basePath |-> basePath, bucket |-> bucket]

(* --------------------------- FormRepository ---------------------------- *)
FormId(n) == "form-" \o ToString(n)

\* the row prisma.form.create({data}) inserts: defaults for the other columns
NewForm(data) ==
    [id |-> FormId(Len(forms) + 1),
     userId |-> data.userId,
     walletAddress |-> data.walletAddress,
     isFormAuthorizedByAdmin |-> FALSE,
     formMetadataUrl |-> Null,
     createdAt |-> Len(forms) + 1,
     kgs |-> [r \in ResidueTypes |-> 0]]

\* NewDocument attached to the Form stored last, whatever data.formId is
NewDocumentOfLatestForm(data) ==
    [id |-> Len(documents) + 1,
     formId |-> forms[Len(forms)].id,
     residueType |-> data.residueType,
     amount |-> data.amount,
     videoFileName |-> data.videoFileName,
     invoicesFileName |-> data.invoicesFileName]

\* the row prisma.document.create({data}) inserts
NewDocument(data) ==
    [id |-> Len(documents) + 1,
     formId |-> data.formId,
     residueType |-> data.residueType,
     amount |-> data.amount,
     videoFileName |-> data.videoFileName,
     invoicesFileName |-> data.invoicesFileName]

\* prisma.form.findUnique({where: {id}})
findUnique(id) ==
    IF \E i \in 1..Len(forms) : forms[i].id = id
    THEN forms[CHOOSE i \in 1..Len(forms) : forms[i].id = id]
    ELSE NoRow

(* --------------------------- task plumbing ----------------------------- *)
Idle(t) == pc[t] \in {"idle", "done"}

Thrown(exception, message) == [kind |-> "throw", exception |-> exception, message |-> message]
Returned(value) == [kind |-> "return", value |-> value]

\* a call is started: the method, its arguments, fresh accounting
Begin(t, op, args) ==
    /\ Idle(t)
    /\ calls < MaxCalls
    /\ calls' = calls + 1
    /\ call' = [call EXCEPT ![t] = [op |-> op, args |-> args]]

\* the method's promise settles with r; L are its locals as it left them
SettleWith(t, r, L) ==
    /\ pc' = [pc EXCEPT ![t] = "done"]
    /\ loc' = [loc EXCEPT ![t] = L]
    /\ ret' = [ret EXCEPT ![t] = r]

\* the promise settles in the step that started the call
SettleAtOnce(t, r) == SettleWith(t, r, NoLoc)

\* the promise settles at a later step
Settle(t, r) == SettleWith(t, r, loc[t])

\* the method suspends at the await named p with locals L
Suspend(t, p, L) ==
    /\ pc' = [pc EXCEPT ![t] = p]
    /\ loc' = [loc EXCEPT ![t] = L]
    /\ ret' = [ret EXCEPT ![t] = NoRet]

\* the storage calls the running step dispatches, in order
Dispatch(t, cs) ==
    /\ s3Calls' = s3Calls \o cs
    /\ effects' = [effects EXCEPT ![t].s3 = @ + Len(cs)]

(* ------------------------------ createForm ----------------------------- *)
\* Entries yielding its first entry twice and its last never
EntriesRepeatingFirst(restFormData) ==
    [i \in 1..Len(ResidueOrder) |->
        LET j == IF i = 1 THEN 1 ELSE i - 1
        IN  <<ResidueOrder[j], restFormData[ResidueOrder[j]]>>]

\* Entries taken from the last key to the first
EntriesFromRight(restFormData) ==
    [i \in 1..Len(ResidueOrder) |->
        LET j == Len(ResidueOrder) + 1 - i
        IN  <<ResidueOrder[j], restFormData[ResidueOrder[j]]>>]

\* the own keys of restFormData in their order: the category fields of
\* CreateFormInput as the framework builds it, whatever order the caller wrote
\* them in
CreateFormInputKeys == ResidueOrder

\* Object.entries(restFormData): one <<residueType, residueProps>> per category
Entries(restFormData) ==
    [i \in 1..Len(CreateFormInputKeys) |->
        <<CreateFormInputKeys[i], restFormData[CreateFormInputKeys[i]]>>]

\* hasUploadedVideoOrInvoice with the invoice lists forgotten
hasUploadedVideo(restFormData) ==
    \E i \in 1..Len(ResidueOrder) : Truthy(Entries(restFormData)[i][2].videoFileName)

\* hasUploadedVideoOrInvoice testing that a video name is given, not that it
\* is non-empty
hasUploadedVideoOrInvoiceIfGiven(restFormData) ==
    \E r \in ResidueTypes :
        restFormData[r].videoFileName # Null \/ Len(restFormData[r].invoicesFileName) > 0

\* lines 109-112
hasUploadedVideoOrInvoice(restFormData) ==
    \E i \in 1..Len(ResidueOrder) :
        LET residueProps == Entries(restFormData)[i][2]
        IN  Truthy(residueProps.videoFileName) \/ Len(residueProps.invoicesFileName) > 0

\* UploadForbidden refusing the profile type whether or not evidence is given
UploadForbiddenWithoutEvidence(user, restFormData) ==
    /\ user.profileType # RECYCLER
    /\ user.profileType # WASTE_GENERATOR

\* lines 114-118: the condition under which ForbiddenException is thrown
UploadForbidden(user, restFormData) ==
    /\ user.profileType # RECYCLER
    /\ user.profileType # WASTE_GENERATOR
    /\ hasUploadedVideoOrInvoice(restFormData)

\* PromiseAll collecting the values as they arrive
PromiseAllAsSettled(base, n, settled) ==
    [j \in 1..n |-> createPreSignedObjectUrl(base + settled[j])]

\* Promise.all over the invoice calls base+1 .. base+n, which settled in the
\* order `settled`: the values, in the order of the input array
PromiseAll(base, n, settled) ==
    [j \in 1..n |-> createPreSignedObjectUrl(base + j)]

\* AfterVideo with the Promise.all of the invoice calls not awaited
AfterVideoNoJoin(L, residueProps) ==
    [pc |-> "document.create",
     loc |-> [L EXCEPT !.invBase = Len(s3Calls),
                       !.pending = 1..Len(residueProps.invoicesFileName)],
     dispatch |-> [k \in 1..Len(residueProps.invoicesFileName) |->
                     S3Call(residueProps.invoicesFileName[k],
                            L.documentEntity.residueType, Null, Null)]]

\* lines 160-175, from the end of the video branch to the next await
AfterVideo(L, residueProps) ==
    IF Len(residueProps.invoicesFileName) > 0
    THEN [pc |-> "invoices",
          loc |-> [L EXCEPT !.invBase = Len(s3Calls),
                            !.pending = 1..Len(residueProps.invoicesFileName)],
          dispatch |-> [k \in 1..Len(residueProps.invoicesFileName) |->
                          S3Call(residueProps.invoicesFileName[k],
                                 L.documentEntity.residueType, Null, Null)]]
    ELSE [pc |-> "document.create", loc |-> L, dispatch |-> <<>>]

\* StartCategory dispatching the invoice calls together with the video call
StartCategoryAllAtOnce(L, restFormData, i) ==
    LET residueType == Entries(restFormData)[i][1]
        residueProps == Entries(restFormData)[i][2]
        L1 == [L EXCEPT !.i = i,
                        !.documentEntity =
                            [formId |-> L.form.id,
                             residueType |-> residueType,
                             invoicesFileName |-> <<>>,
                             amount |-> residueProps.amount,
                             videoFileName |-> Null],
                        !.s3CreateVideoFileName = "",
                        !.s3CreateInvoiceFileName = <<>>,
                        !.settled = <<>>]
    IN  IF Truthy(residueProps.videoFileName)
        THEN [pc |-> "video",
              loc |-> [L1 EXCEPT !.videoCall = Len(s3Calls) + 1],
              dispatch |-> <<S3Call(residueProps.videoFileName, residueType, Null, Null)>>
                             \o [k \in 1..Len(residueProps.invoicesFileName) |->
                                    S3Call(residueProps.invoicesFileName[k],
                                           residueType, Null, Null)]]
        ELSE AfterVideo(L1, residueProps)

\* lines 135-158: the reducer entered for entry i, up to its first await
StartCategory(L, restFormData, i) ==
    LET residueType == Entries(restFormData)[i][1]
        residueProps == Entries(restFormData)[i][2]
        L1 == [L EXCEPT !.i = i,
                        !.documentEntity =
                            [formId |-> L.form.id,
                             residueType |-> residueType,
                             invoicesFileName |-> <<>>,
                             amount |-> residueProps.amount,
                             videoFileName |-> Null],
                        !.s3CreateVideoFileName = "",
                        !.s3CreateInvoiceFileName = <<>>,
                        !.settled = <<>>]
    IN  IF Truthy(residueProps.videoFileName)
        THEN [pc |-> "video",
              loc |-> [L1 EXCEPT !.videoCall = Len(s3Calls) + 1],
              dispatch |-> <<S3Call(residueProps.videoFileName, residueType, Null, Null)>>]
        ELSE AfterVideo(L1, residueProps)

Resume(t, step) ==
    /\ Suspend(t, step.pc, step.loc)
    /\ Dispatch(t, step.dispatch)

CurrentProps(t) == Entries(call[t].args.rest)[loc[t].i][2]

\* Uploader falling back to the first user when the identity is unknown
UploaderOrDefault(authUserId) ==
    IF findUserByAuthUserId(authUserId) = NoRow
    THEN CHOOSE u \in Users : u.id = "u1"
    ELSE findUserByAuthUserId(authUserId)

\* line 107: the user createForm works for, NoRow when the lookup throws
Uploader(authUserId) == findUserByAuthUserId(authUserId)

\* lines 102-131: the call, the user lookup and the eligibility check
createForm(t, input) ==
    /\ Begin(t, "createForm", input)
    /\ LET user == Uploader(input.authUserId)
       IN  IF user = NoRow
           THEN SettleAtOnce(t, Thrown("NotFoundException", USER_NOT_FOUND))
           ELSE IF UploadForbidden(user, input.rest)
           THEN SettleAtOnce(t, Thrown("ForbiddenException", USER_DOES_NOT_HAS_PERMISSION_TO_UPLOAD))
           ELSE Suspend(t, "form.create",
                    [user |-> user,
                     hasUploadedVideoOrInvoice |-> hasUploadedVideoOrInvoice(input.rest),
                     form |-> NoRow, i |-> 0, documentEntity |-> NoRow,
                     s3CreateVideoFileName |-> "", s3CreateInvoiceFileName |-> <<>>,
                     videoCall |-> 0, invBase |-> 0, pending |-> {}, settled |-> <<>>,
                     allDocuments |-> <<>>])
    /\ effects' = [effects EXCEPT ![t] = NoEffects]
    /\ UNCHANGED <<forms, documents, s3Calls>>

\* lines 126-133, 198-201: prisma.form.create resolves
createForm_form(t) ==
    /\ pc[t] = "form.create"
    /\ LET form == NewForm([userId |-> loc[t].user.id,
                            walletAddress |-> call[t].args.walletAddress])
       IN  /\ forms' = Append(forms, form)
           /\ IF loc[t].hasUploadedVideoOrInvoice
              THEN LET step == StartCategory([loc[t] EXCEPT !.form = form], call[t].args.rest, 1)
                   IN  /\ Suspend(t, step.pc, step.loc)
                       /\ s3Calls' = s3Calls \o step.dispatch
                       /\ effects' = [effects EXCEPT ![t].forms = @ + 1,
                                                     ![t].s3 = @ + Len(step.dispatch)]
              ELSE /\ SettleWith(t, Returned([form |-> form, s3 |-> <<>>]),
                                  [loc[t] EXCEPT !.form = form])
                   /\ effects' = [effects EXCEPT ![t].forms = @ + 1]
                   /\ UNCHANGED s3Calls
    /\ UNCHANGED <<documents, call, calls>>

\* createForm_video with the two fields of the response taken for each other
createForm_videoSwapped(t) ==
    /\ pc[t] = "video"
    /\ LET r == createPreSignedObjectUrl(loc[t].videoCall)
           L == [loc[t] EXCEPT !.s3CreateVideoFileName = r.fileName,
                               !.documentEntity.videoFileName = r.createUrl]
       IN  Resume(t, AfterVideo(L, CurrentProps(t)))
    /\ UNCHANGED <<forms, documents, call, calls>>

\* lines 149-158: the video call resolves
createForm_video(t) ==
    /\ pc[t] = "video"
    /\ LET r == createPreSignedObjectUrl(loc[t].videoCall)
           L == [loc[t] EXCEPT !.s3CreateVideoFileName = r.createUrl,
                               !.documentEntity.videoFileName = r.fileName]
       IN  Resume(t, AfterVideo(L, CurrentProps(t)))
    /\ UNCHANGED <<forms, documents, call, calls>>

\* lines 161-173: invoice call k resolves; when it is the last one Promise.all
\* resolves and forEach copies the values
createForm_invoice(t, k) ==
    /\ pc[t] = "invoices"
    /\ k \in loc[t].pending
    /\ LET pending == loc[t].pending \ {k}
           settled == Append(loc[t].settled, k)
           n == Len(CurrentProps(t).invoicesFileName)
           invoicesS3Response == PromiseAll(loc[t].invBase, n, settled)
       IN  IF pending # {}
           THEN Suspend(t, "invoices", [loc[t] EXCEPT !.pending = pending, !.settled = settled])
           ELSE Suspend(t, "document.create",
                    [loc[t] EXCEPT !.pending = {}, !.settled = settled,
                        !.s3CreateInvoiceFileName =
                            [j \in 1..n |-> invoicesS3Response[j].createUrl],
                        !.documentEntity.invoicesFileName =
                            [j \in 1..n |-> invoicesS3Response[j].fileName]])
    /\ UNCHANGED <<forms, documents, s3Calls, effects, call, calls>>

\* lines 175-193: prisma.document.create resolves; the reducer returns and is
\* entered for the next entry, or the reduce is over
createForm_document(t) ==
    /\ pc[t] = "document.create"
    /\ LET residueDocument == NewDocument(loc[t].documentEntity)
           allDocuments == Append(loc[t].allDocuments,
               [invoicesCreateUrl |-> loc[t].s3CreateInvoiceFileName,
                invoicesFileName |-> residueDocument.invoicesFileName,
                videoCreateUrl |-> loc[t].s3CreateVideoFileName,
                videoFileName |-> residueDocument.videoFileName,
                residue |-> residueDocument.residueType])
       IN  /\ documents' = Append(documents, residueDocument)
           /\ IF loc[t].i < Len(ResidueOrder)
              THEN LET step == StartCategory([loc[t] EXCEPT !.allDocuments = allDocuments],
                                             call[t].args.rest, loc[t].i + 1)
                   IN  /\ Suspend(t, step.pc, step.loc)
                       /\ s3Calls' = s3Calls \o step.dispatch
                       /\ effects' = [effects EXCEPT ![t].documents = @ + 1,
                                                     ![t].s3 = @ + Len(step.dispatch)]
              ELSE /\ SettleWith(t, Returned([form |-> loc[t].form, s3 |-> allDocuments]),
                                  [loc[t] EXCEPT !.allDocuments = allDocuments])
                   /\ effects' = [effects EXCEPT ![t].documents = @ + 1]
                   /\ UNCHANGED s3Calls
    /\ UNCHANGED <<forms, call, calls>>


(* ---------------------------- findByFormId ----------------------------- *)
\* findByFormId with findFirst and no usable where clause
findByFormIdOrFirst(id) ==
    IF findUnique(id) = NoRow /\ forms # <<>> THEN forms[1] ELSE findUnique(id)

\* lines 25-35: the row, or NoRow when NotFoundException(FORM_NOT_FOUND) is thrown
findByFormId(id) == findUnique(id)

FormNotFound == Thrown("NotFoundException", FORM_NOT_FOUND)

\* UpdateAuthorized that never withdraws an authorization
UpdateAuthorizedOnce(id, isFormAuthorized) ==
    [i \in 1..Len(forms) |->
        IF forms[i].id = id
        THEN [forms[i] EXCEPT !.isFormAuthorizedByAdmin = @ \/ isFormAuthorized]
        ELSE forms[i]]

\* UpdateAuthorized that also withdraws the published metadata URL
UpdateAuthorizedClearingUrl(id, isFormAuthorized) ==
    [i \in 1..Len(forms) |->
        IF forms[i].id = id
        THEN [forms[i] EXCEPT !.isFormAuthorizedByAdmin = isFormAuthorized,
                              !.formMetadataUrl = Null]
        ELSE forms[i]]

\* prisma.form.update({where: {id}, data: {isFormAuthorizedByAdmin}})
UpdateAuthorized(id, isFormAuthorized) ==
    [i \in 1..Len(forms) |->
        IF forms[i].id = id
        THEN [forms[i] EXCEPT !.isFormAuthorizedByAdmin = isFormAuthorized]
        ELSE forms[i]]

\* UpdateMetadataUrl writing back the whole row createFormMetadata read when
\* it started, with the new URL
UpdateMetadataUrlWholeRow(id, formMetadataUrl) ==
    LET t == CHOOSE u \in Tasks : /\ pc[u] = "metadata.update"
                                  /\ call[u].args.formId = id
                                  /\ loc[u].formMetadataUrl = formMetadataUrl
    IN  [i \in 1..Len(forms) |->
            IF forms[i].id = id
            THEN [loc[t].form EXCEPT !.formMetadataUrl = formMetadataUrl]
            ELSE forms[i]]

\* UpdateMetadataUrl without its where clause
UpdateMetadataUrlEverywhere(id, formMetadataUrl) ==
    [i \in 1..Len(forms) |-> [forms[i] EXCEPT !.formMetadataUrl = formMetadataUrl]]

\* prisma.form.update({where: {id}, data: {formMetadataUrl}})
UpdateMetadataUrl(id, formMetadataUrl) ==
    [i \in 1..Len(forms) |->
        IF forms[i].id = id
        THEN [forms[i] EXCEPT !.formMetadataUrl = formMetadataUrl]
        ELSE forms[i]]

(* ---------------------------- authorizeForm ---------------------------- *)
\* lines 212-215: the call and the lookup
authorizeForm(t, formId, isFormAuthorized) ==
    /\ Begin(t, "authorizeForm", [formId |-> formId, isFormAuthorized |-> isFormAuthorized])
    /\ LET form == findByFormId(formId)
       IN  IF form = NoRow
           THEN SettleAtOnce(t, FormNotFound)
           ELSE Suspend(t, "authorize.update", [form |-> form])
    /\ effects' = [effects EXCEPT ![t] = NoEffects]
    /\ UNCHANGED <<forms, documents, s3Calls>>

\* lines 217-224: prisma.form.update resolves with the updated row
authorizeForm_update(t) ==
    /\ pc[t] = "authorize.update"
    /\ forms' = UpdateAuthorized(loc[t].form.id, call[t].args.isFormAuthorized)
    /\ Settle(t, Returned(CHOOSE f \in {forms'[i] : i \in 1..Len(forms')} :
                              f.id = loc[t].form.id))
    /\ effects' = [effects EXCEPT ![t].forms = @ + 1]
    /\ UNCHANGED <<documents, s3Calls, call, calls>>

(* ------------------- createOnPublicObject, submitFormImage ------------- *)
\* lines 227-235: the call createOnPublicObject makes
createOnPublicObject(fileName, basePath) == S3Call(fileName, "", basePath, publicBucket)

\* lines 240-246
submitFormImage(t, formId) ==
    /\ Begin(t, "submitFormImage", [formId |-> formId])
    /\ LET form == findByFormId(formId)
       IN  IF form = NoRow
           THEN /\ SettleAtOnce(t, FormNotFound)
                /\ effects' = [effects EXCEPT ![t] = NoEffects]
                /\ UNCHANGED s3Calls
           ELSE /\ Suspend(t, "image.url", [form |-> form, urlCall |-> Len(s3Calls) + 1])
                /\ s3Calls' = Append(s3Calls, createOnPublicObject(form.id \o ".png", "images"))
                /\ effects' = [effects EXCEPT ![t] = [NoEffects EXCEPT !.s3 = 1]]
    /\ UNCHANGED <<forms, documents>>

\* lines 237, 248: the upload URL alone is returned
submitFormImage_url(t) ==
    /\ pc[t] = "image.url"
    /\ Settle(t, Returned(createPreSignedObjectUrl(loc[t].urlCall).createUrl))
    /\ UNCHANGED <<forms, documents, s3Calls, effects, call, calls>>

(* -------------------------- createFormMetadata ------------------------- *)
\* DocumentsService.listDocumentsFromForm
listDocumentsFromForm(formId) ==
    SelectSeqBy(documents, {d \in {documents[i] : i \in 1..Len(documents)} : d.formId = formId})

\* util getResidueTitle
getResidueTitle(residueType) ==
    CASE residueType = "GLASS" -> "Glass"
      [] residueType = "METAL" -> "Metal"
      [] residueType = "ORGANIC" -> "Organic"
      [] residueType = "PAPER" -> "Paper"
      [] residueType = "PLASTIC" -> "Plastic"

\* residueAttributes seeded with the wallet attribute alone
residueAttributesOneSeed(form, docs) ==
    << [trait_type |-> "Originating wallet",
        value |-> IF Truthy(form.walletAddress) THEN form.walletAddress ELSE "0x0"] >>
    \o [i \in 1..Len(docs) |->
          [trait_type |-> getResidueTitle(docs[i].residueType) \o " kgs",
           value |-> ToString(docs[i].amount)]]

\* lines 259-280: documents.reduce over the two seed attributes
residueAttributes(form, docs) ==
    << [trait_type |-> "Originating wallet",
        value |-> IF Truthy(form.walletAddress) THEN form.walletAddress ELSE "0x0"],
       [trait_type |-> "Audit",
        value |-> IF form.isFormAuthorizedByAdmin THEN "Verified" ELSE "Not Verified"] >>
    \o [i \in 1..Len(docs) |->
          [trait_type |-> getResidueTitle(docs[i].residueType) \o " kgs",
           value |-> ToString(docs[i].amount)]]

\* lines 251-252
createFormMetadata(t, formId) ==
    /\ Begin(t, "createFormMetadata", [formId |-> formId])
    /\ LET form == findByFormId(formId)
       IN  IF form = NoRow
           THEN SettleAtOnce(t, FormNotFound)
           ELSE Suspend(t, "metadata.load", [form |-> form])
    /\ effects' = [effects EXCEPT ![t] = NoEffects]
    /\ UNCHANGED <<forms, documents, s3Calls>>

\* lines 254-286: the user and the documents arrive, the attributes are built,
\* the upload URL is requested
createFormMetadata_load(t) ==
    /\ pc[t] = "metadata.load"
    /\ LET form == loc[t].form
           user == findUserByUserId(form.userId)
           docs == listDocumentsFromForm(call[t].args.formId)
       IN  IF user = NoRow
           THEN /\ Settle(t, Thrown("NotFoundException", USER_NOT_FOUND))
                /\ UNCHANGED <<s3Calls, effects>>
           ELSE /\ Suspend(t, "metadata.url",
                       [form |-> form, user |-> user,
                        residueAttributes |-> residueAttributes(form, docs),
                        urlCall |-> Len(s3Calls) + 1])
                /\ Dispatch(t, <<createOnPublicObject(form.id \o ".json", "metadata")>>)
    /\ UNCHANGED <<forms, documents, call, calls>>

\* lines 287-305: the metadata and its URL are computed, the update is sent
createFormMetadata_url(t) ==
    /\ pc[t] = "metadata.url"
    /\ LET form == loc[t].form
           createMetadataUrl == createPreSignedObjectUrl(loc[t].urlCall).createUrl
           objectUrl == URL(createMetadataUrl)
           JsonMetadata ==
               [attributes |-> loc[t].residueAttributes,
                description |-> "RECY Report",
                image |-> objectUrl.origin \o "/images/" \o form.id \o ".png",
                name |-> loc[t].user.email]
       IN  Suspend(t, "metadata.update",
               [form |-> form, user |-> loc[t].user,
                residueAttributes |-> loc[t].residueAttributes,
                urlCall |-> loc[t].urlCall,
                createMetadataUrl |-> createMetadataUrl,
                JsonMetadata |-> JsonMetadata,
                formMetadataUrl |-> objectUrl.origin \o objectUrl.pathname])
    /\ UNCHANGED <<forms, documents, s3Calls, effects, call, calls>>

\* lines 298-310: prisma.form.update resolves
createFormMetadata_update(t) ==
    /\ pc[t] = "metadata.update"
    /\ forms' = UpdateMetadataUrl(call[t].args.formId, loc[t].formMetadataUrl)
    /\ Settle(t, Returned([createMetadataUrl |-> loc[t].createMetadataUrl,
                           body |-> loc[t].JsonMetadata]))
    /\ effects' = [effects EXCEPT ![t].forms = @ + 1]
    /\ UNCHANGED <<documents, s3Calls, call, calls>>

(* --------------------------- aggregate reporting ----------------------- *)
\* JavaScript values of the two shapes the aggregates return
JsNumber(n) == [number |-> n]
JsObject(fields) == [object |-> fields]

ProfileOf(form) == findUserByUserId(form.userId).profileType

\* prisma.form.findMany({where: {user: {is: {profileType}}}})
FormsByProfile(profileType) ==
    SelectSeqBy(forms, {f \in {forms[i] : i \in 1..Len(forms)} : ProfileOf(f) = profileType})

\* prisma.document.aggregate({_sum: {amount}, where: {OR: ids as formId}}):
\* _sum.amount, <<>> standing for null when no row matches
DocumentSumAmount(formIds) ==
    LET rows == SelectSeqBy(documents,
                    {d \in {documents[i] : i \in 1..Len(documents)} : d.formId \in formIds})
    IN  IF rows = <<>> THEN <<>> ELSE <<SumSeq([i \in 1..Len(rows) |-> rows[i].amount])>>

\* prisma.form.aggregate({_sum: {the five Kgs columns}, where: profileType}):
\* _sum, every column <<>> (null) when no row matches
FormSumKgs(profileType) ==
    LET rows == FormsByProfile(profileType)
    IN  [r \in ResidueTypes |->
            IF rows = <<>> THEN <<>>
            ELSE <<SumSeq([i \in 1..Len(rows) |-> rows[i].kgs[r]])>>]

\* x || 0
OrZero(x) == IF x = <<>> THEN 0 ELSE x[1]

\* forms.service.ts lines 45-65: both findMany resolve
aggregateFormByUserProfile(t) ==
    /\ Begin(t, "aggregateFormByUserProfile", [none |-> TRUE])
    /\ Suspend(t, "aggregate.documents",
           [allFormsByRecyclers |-> FormsByProfile(RECYCLER),
            allFormsByWasteGenerators |-> FormsByProfile(WASTE_GENERATOR)])
    /\ effects' = [effects EXCEPT ![t] = NoEffects]
    /\ UNCHANGED <<forms, documents, s3Calls>>

\* forms.service.ts lines 67-99: both document.aggregate resolve
aggregateFormByUserProfile_documents(t) ==
    /\ pc[t] = "aggregate.documents"
    /\ LET ids(fs) == {fs[i].id : i \in 1..Len(fs)}
           aggregateRecyclerData == DocumentSumAmount(ids(loc[t].allFormsByRecyclers))
           aggregateWasteGenData == DocumentSumAmount(ids(loc[t].allFormsByWasteGenerators))
       IN  Settle(t, Returned(
               << [id |-> RECYCLER, data |-> JsNumber(OrZero(aggregateRecyclerData))],
                  [id |-> WASTE_GENERATOR, data |-> JsNumber(OrZero(aggregateWasteGenData))] >>))
    /\ UNCHANGED <<forms, documents, s3Calls, effects, call, calls>>

\* part_001 lines 117-163: both form.aggregate resolve
listFormDetails(t) ==
    /\ Begin(t, "listFormDetails", [none |-> TRUE])
    /\ SettleAtOnce(t, Returned(
           << [id |-> RECYCLER, data |-> JsObject(FormSumKgs(RECYCLER))],
              [id |-> WASTE_GENERATOR, data |-> JsObject(FormSumKgs(WASTE_GENERATOR))] >>))
    /\ effects' = [effects EXCEPT ![t] = NoEffects]
    /\ UNCHANGED <<forms, documents, s3Calls>>

\* part_001 lines 38-42: the query aggregateFormByUserProfile of FormsResolver
resolver_aggregateFormByUserProfile(t) == listFormDetails(t)

(* ------------------------ collaborator failures ------------------------ *)
\* storageFails undoing the rows the call wrote
storageFailsRollingBack(t) ==
    /\ pc[t] \in {"video", "invoices", "image.url", "metadata.url"}
    /\ Settle(t, Thrown("StorageFailure", pc[t]))
    /\ forms' = SubSeq(forms, 1, Len(forms) - effects[t].forms)
    /\ documents' = SubSeq(documents, 1, Len(documents) - effects[t].documents)
    /\ UNCHANGED <<s3Calls, effects, call, calls>>

\* storageFails answered by making the last storage call again
storageFailsRetrying(t) ==
    /\ pc[t] \in {"video", "invoices", "image.url", "metadata.url"}
    /\ s3Calls' = Append(s3Calls, s3Calls[Len(s3Calls)])
    /\ effects' = [effects EXCEPT ![t].s3 = @ + 1]
    /\ UNCHANGED <<forms, documents, pc, call, loc, ret, calls>>

\* an awaited StorageGateway call rejects (for the invoices: Promise.all
\* rejects on the first rejection); the method's promise rejects
storageFails(t) ==
    /\ pc[t] \in {"video", "invoices", "image.url", "metadata.url"}
    /\ Settle(t, Thrown("StorageFailure", pc[t]))
    /\ UNCHANGED <<forms, documents, s3Calls, effects, call, calls>>

\* an awaited prisma write rejects; the method's promise rejects
persistFails(t) ==
    /\ pc[t] \in {"form.create", "document.create", "authorize.update", "metadata.update"}
    /\ Settle(t, Thrown("PersistenceFailure", pc[t]))
    /\ UNCHANGED <<forms, documents, s3Calls, effects, call, calls>>

(* ------------------------- inputs of createForm ------------------------ *)
Wallets == {Null, "0xA"}
VideoNames == {Null, "", "v.mp4"}
InvoiceNames == {"a.pdf", "b.pdf"}
InvoiceLists == UNION {[1..n -> InvoiceNames] : n \in 0..MaxInvoices}
\* declared amounts, per category
AmountVectors ==
    { [r \in ResidueTypes |-> 0],
      [r \in ResidueTypes |-> IF r = "PLASTIC" THEN 10 ELSE 1] }

ResidueProps(amount, videoFileName, invoicesFileName) ==
    [amount |-> amount, videoFileName |-> videoFileName,
     invoicesFileName |-> invoicesFileName]

\* every category carries an amount; category c1 carries any evidence, category
\* c2 a video, one invoice or nothing, the others none
SubmitInputs ==
    { [authUserId |-> a, walletAddress |-> w,
       rest |-> [r \in ResidueTypes |->
                   IF r = c1 THEN ResidueProps(am[r], v1, i1)
                   ELSE IF r = c2 THEN ResidueProps(am[r], e2[1], e2[2])
                   ELSE ResidueProps(am[r], Null, <<>>)]] :
      a \in AuthIds, w \in Wallets, am \in AmountVectors,
      c1 \in ResidueTypes, v1 \in VideoNames, i1 \in InvoiceLists,
      c2 \in ResidueTypes, e2 \in {<<Null, <<>>>>, <<"v.mp4", <<>>>>, <<Null, <<"b.pdf">>>>} }

(* -------------------- one submission, any input ------------------------ *)
SubmitNext ==
    \E t \in {"t1"} :
        \/ calls = 0 /\ \E input \in SubmitInputs : createForm(t, input)
        \/ createForm_form(t)
        \/ createForm_video(t)
        \/ \E k \in 1..(MaxInvoices + 1) : createForm_invoice(t, k)
        \/ createForm_document(t)
        \/ storageFails(t)
        \/ persistFails(t)

SpecSubmit == Init /\ [][SubmitNext]_vars

(* ------------------ any sequence of calls, one at a time --------------- *)
Input(a, w, am, c, v, inv) ==
    [authUserId |-> a, walletAddress |-> w,
     rest |-> [r \in ResidueTypes |->
                 IF r = c THEN ResidueProps(am[r], v, inv)
                 ELSE ResidueProps(am[r], Null, <<>>)]]

Declared == [r \in ResidueTypes |-> IF r = "PLASTIC" THEN 10 ELSE 1]

\* the submissions of Spec
LifeInputs ==
    { Input("auth-r", "0xA", Declared, "PLASTIC", "v.mp4", <<"a.pdf">>),
      Input("auth-w", Null, Declared, "GLASS", Null, <<"b.pdf">>),
      Input("auth-h", "0xA", Declared, "GLASS", Null, <<>>),
      Input("auth-h", Null, Declared, "METAL", "v.mp4", <<>>),
      Input("auth-x", "0xA", Declared, "GLASS", Null, <<>>) }

\* the identities of the stored forms, and one that is not stored
FormIdArgs == {FormId(n) : n \in 1..(Len(forms) + 1)}

Next ==
    \E t \in {"t1"} :
        \/ \E input \in LifeInputs : createForm(t, input)
        \/ createForm_form(t)
        \/ createForm_video(t)
        \/ \E k \in 1..(MaxInvoices + 1) : createForm_invoice(t, k)
        \/ createForm_document(t)
        \/ \E formId \in FormIdArgs, isFormAuthorized \in BOOLEAN :
               authorizeForm(t, formId, isFormAuthorized)
        \/ authorizeForm_update(t)
        \/ \E formId \in FormIdArgs : submitFormImage(t, formId)
        \/ submitFormImage_url(t)
        \/ \E formId \in FormIdArgs : createFormMetadata(t, formId)
        \/ createFormMetadata_load(t)
        \/ createFormMetadata_url(t)
        \/ createFormMetadata_update(t)
        \/ aggregateFormByUserProfile(t)
        \/ aggregateFormByUserProfile_documents(t)
        \/ resolver_aggregateFormByUserProfile(t)
        \/ storageFails(t)
        \/ persistFails(t)

Spec == Init /\ [][Next]_vars

(* --------------------------- FormsService.test ------------------------- *)
\* part_001 lines 380-415: the categories in the order test() lists them
TestTypes == <<"GLASS", "PLASTIC", "METAL", "ORGANIC", "PAPER">>

\* a column of a Form row that only rows older than the Document table have
\* set; null in the rows createForm inserts
Column(form, name, r) == IF name \in DOMAIN form THEN form[name][r] ELSE Null

\* part_001 lines 419-432: the data of the Document test() creates for
\* category r of the form
TestDocument(form, r) ==
    [amount |-> form.kgs[r],
     formId |-> form.id,
     residueType |-> r,
     videoFileName |-> Column(form, "videoFileName", r),
     invoicesFileName |-> Column(form, "invoiceFileName", r)]

\* part_001 lines 377-436: the document.create calls test() makes, form by
\* form and category by category, one for each quantity above 0
TestCreates ==
    LET pairs == {<<f, k>> \in (1..Len(forms)) \X (1..Len(TestTypes)) :
                     forms[f].kgs[TestTypes[k]] > 0}
        rank(p) == (p[1] - 1) * Len(TestTypes) + p[2]
        nth(n) == CHOOSE p \in pairs : Cardinality({q \in pairs : rank(q) < rank(p)}) = n - 1
    IN  [n \in 1..Cardinality(pairs) |-> TestDocument(forms[nth(n)[1]], TestTypes[nth(n)[2]])]

\* part_001 lines 376-441: findMany resolves, the creates are made and, the
\* forEach callbacks not being awaited, 'ok' is returned while they are
\* outstanding
test(t) ==
    /\ Begin(t, "test", [none |-> TRUE])
    /\ IF TestCreates = <<>>
       THEN SettleAtOnce(t, Returned("ok"))
       ELSE /\ pc' = [pc EXCEPT ![t] = "test.creates"]
            /\ loc' = [loc EXCEPT ![t] = [creates |-> TestCreates,
                                          pending |-> 1..Len(TestCreates)]]
            /\ ret' = [ret EXCEPT ![t] = Returned("ok")]
    /\ effects' = [effects EXCEPT ![t] = NoEffects]
    /\ UNCHANGED <<forms, documents, s3Calls>>

\* the outstanding creates of test() after create k is over
TestAfter(t, k) ==
    /\ pc' = [pc EXCEPT ![t] = IF loc[t].pending = {k} THEN "done" ELSE "test.creates"]
    /\ loc' = [loc EXCEPT ![t].pending = @ \ {k}]

\* part_001 lines 421-431: one of the outstanding document.create calls of
\* test() resolves
test_document(t, k) ==
    /\ pc[t] = "test.creates"
    /\ k \in loc[t].pending
    /\ documents' = Append(documents, NewDocument(loc[t].creates[k]))
    /\ effects' = [effects EXCEPT ![t].documents = @ + 1]
    /\ TestAfter(t, k)
    /\ UNCHANGED <<forms, s3Calls, call, ret, calls>>

\* one of them rejects: nothing catches the rejection, the others go on
test_documentRejects(t, k) ==
    /\ pc[t] = "test.creates"
    /\ k \in loc[t].pending
    /\ TestAfter(t, k)
    /\ UNCHANGED <<forms, documents, s3Calls, effects, call, ret, calls>>

(* ------------- a store with a Form older than the Document table -------- *)
\* a Form row whose quantity columns are set: glass and plastic
LegacyForm ==
    [id |-> FormId(1),
     userId |-> "u1",
     walletAddress |-> "0xA",
     isFormAuthorizedByAdmin |-> FALSE,
     formMetadataUrl |-> Null,
     createdAt |-> 1,
     kgs |-> [r \in ResidueTypes |-> IF r = "GLASS" THEN 3 ELSE IF r = "PLASTIC" THEN 2 ELSE 0],
     videoFileName |-> [r \in ResidueTypes |-> IF r = "GLASS" THEN "GLASS/g.mp4" ELSE Null],
     invoiceFileName |-> [r \in ResidueTypes |->
                             IF r = "PLASTIC" THEN <<"PLASTIC/p.pdf">> ELSE <<>>]]

InitLegacy ==
    /\ forms \in {<<>>, <<LegacyForm>>}
    /\ documents = <<>>
    /\ s3Calls = <<>>
    /\ pc = [t \in Tasks |-> "idle"]
    /\ call = [t \in Tasks |-> NoCall]
    /\ loc = [t \in Tasks |-> NoLoc]
    /\ ret = [t \in Tasks |-> NoRet]
    /\ effects = [t \in Tasks |-> NoEffects]
    /\ calls = 0

\* submissions and test(), one call at a time
LegacyNext ==
    \E t \in {"t1"} :
        \/ \E input \in LifeInputs : createForm(t, input)
        \/ createForm_form(t)
        \/ createForm_video(t)
        \/ \E k \in 1..(MaxInvoices + 1) : createForm_invoice(t, k)
        \/ createForm_document(t)
        \/ test(t)
        \/ \E k \in 1..(Len(forms) * Len(TestTypes)) : test_document(t, k)
        \/ \E k \in 1..(Len(forms) * Len(TestTypes)) : test_documentRejects(t, k)
        \/ storageFails(t)
        \/ persistFails(t)

SpecLegacy == InitLegacy /\ [][LegacyNext]_vars

(* ----------------- two submissions at the same time -------------------- *)
\* the submissions of SpecSubmissions: two users, and both tasks may pick the
\* same one
ConcurrentInputs ==
    { Input("auth-r", "0xA", Declared, "PLASTIC", "v.mp4", <<"a.pdf">>),
      Input("auth-w", Null, Declared, "GLASS", Null, <<"b.pdf">>),
      Input("auth-r", "0xA", [r \in ResidueTypes |-> 0], "METAL", Null, <<>>) }

\* each task makes one createForm call; the steps of the two calls interleave
\* at every await
SubmissionsNext ==
    \E t \in Tasks :
        \/ pc[t] = "idle" /\ \E input \in ConcurrentInputs : createForm(t, input)
        \/ createForm_form(t)
        \/ createForm_video(t)
        \/ \E k \in 1..(MaxInvoices + 1) : createForm_invoice(t, k)
        \/ createForm_document(t)
        \/ storageFails(t)
        \/ persistFails(t)

SpecSubmissions == Init /\ [][SubmissionsNext]_vars

(* ------------- authorization and publication at the same time --------- *)
\* the submission that stores the form the two operations work on
StoredInput == Input("auth-r", "0xA", Declared, "GLASS", Null, <<>>)

\* task t1 submits and authorizes, task t2 publishes the metadata; the steps
\* of the two tasks interleave at every await
UpdatesNext ==
    \/ createForm("t1", StoredInput)
    \/ createForm_form("t1")
    \/ \E formId \in FormIdArgs, isFormAuthorized \in BOOLEAN :
           authorizeForm("t1", formId, isFormAuthorized)
    \/ authorizeForm_update("t1")
    \/ \E formId \in FormIdArgs : createFormMetadata("t2", formId)
    \/ createFormMetadata_load("t2")
    \/ createFormMetadata_url("t2")
    \/ createFormMetadata_update("t2")
    \/ \E t \in Tasks : storageFails(t)
    \/ \E t \in Tasks : persistFails(t)

SpecUpdates == Init /\ [][UpdatesNext]_vars

(***************************************************************************)
(*                               Claims                                    *)
(***************************************************************************)
Running(t, op) == call[t].op = op
Done(t) == pc[t] = "done"
Threw(t, exception) == Done(t) /\ ret[t].kind = "throw" /\ ret[t].exception = exception
HasReturned(t) == Done(t) /\ ret[t].kind = "return"

\* the category of the input gives a non-empty video name or an invoice name
SuppliesEvidence(input, r) ==
    \/ input.rest[r].videoFileName \notin {Null, ""}
    \/ input.rest[r].invoicesFileName # <<>>

KnownUser(input) == \E u \in Users : u.authUserId = input.authUserId
ProfileTypeOf(input) == (CHOOSE u \in Users : u.authUserId = input.authUserId).profileType

NothingProduced(t) ==
    effects[t] = NoEffects /\ forms = <<>> /\ documents = <<>> /\ s3Calls = <<>>

IneligibleWithEvidence(t) ==
    /\ Running(t, "createForm")
    /\ KnownUser(call[t].args)
    /\ ProfileTypeOf(call[t].args) \notin {RECYCLER, WASTE_GENERATOR}
    /\ \E r \in ResidueTypes : SuppliesEvidence(call[t].args, r)

\* C1: a createForm call by a user who is neither RECYCLER nor WASTE_GENERATOR
\* that supplies any evidence throws Forbidden, and has written no Form row, no
\* Document row and made no StorageGateway call.
C1_ForbiddenBeforePersistence ==
    \A t \in Tasks :
        IneligibleWithEvidence(t) =>
            /\ Threw(t, "ForbiddenException")
            /\ ret[t].message = USER_DOES_NOT_HAS_PERMISSION_TO_UPLOAD
            /\ NothingProduced(t)

\* an ineligible user was refused a submission whose only evidence is an invoice
C1_Witness ==
    /\ IneligibleWithEvidence("t1")
    /\ Threw("t1", "ForbiddenException")
    /\ \A r \in ResidueTypes : call["t1"].args.rest[r].videoFileName = Null
    /\ \E r \in ResidueTypes : Len(call["t1"].args.rest[r].invoicesFileName) = MaxInvoices

NoEvidence(input) == \A r \in ResidueTypes : ~SuppliesEvidence(input, r)

\* C2: a createForm call whose categories supply no video name and no invoice
\* name has hasEvidence false, makes no StorageGateway call, and returns an
\* empty evidence list.
C2_NoEvidenceNoStorage ==
    \A t \in Tasks :
        (Running(t, "createForm") /\ NoEvidence(call[t].args)) =>
            /\ effects[t].s3 = 0
            /\ s3Calls = <<>>
            /\ documents = <<>>
            /\ pc[t] \in {"form.create", "done"}
            /\ loc[t] # NoLoc => ~loc[t].hasUploadedVideoOrInvoice
            /\ HasReturned(t) => ret[t].value.s3 = <<>>

\* a submission without evidence (one video name is the empty string) returned
C2_Witness ==
    /\ Running("t1", "createForm")
    /\ NoEvidence(call["t1"].args)
    /\ \E r \in ResidueTypes : call["t1"].args.rest[r].videoFileName = ""
    /\ HasReturned("t1")
    /\ Len(forms) = 1

\* the storage call of the log made for file name `name` of category r resolved
\* to the key `key` and the upload URL `url`
IssuedFor(name, r, key, url) ==
    \E n \in 1..Len(s3Calls) :
        /\ s3Calls[n].fileName = name
        /\ s3Calls[n].residueType = r
        /\ createPreSignedObjectUrl(n).fileName = key
        /\ createPreSignedObjectUrl(n).createUrl = url

\* position i of the lists url and key answers the i-th invoice name of category r
InvoicesInInputOrder(input, r, keys, urls) ==
    LET names == input.rest[r].invoicesFileName
    IN  /\ Len(keys) = Len(names)
        /\ Len(urls) = Len(names)
        /\ \A i \in 1..Len(names) : IssuedFor(names[i], r, keys[i], urls[i])

\* C3: for every category, the i-th invoice upload URL of the response and the
\* i-th invoice name stored on the Document answer the i-th input invoice name,
\* in whatever order the storage calls settled.
C3_InvoiceOrder ==
    \A t \in Tasks :
        Running(t, "createForm") =>
            /\ pc[t] = "document.create" =>
                   InvoicesInInputOrder(call[t].args, loc[t].documentEntity.residueType,
                       loc[t].documentEntity.invoicesFileName, loc[t].s3CreateInvoiceFileName)
            /\ loc[t] # NoLoc =>
                   \A i \in 1..Len(loc[t].allDocuments) :
                       /\ InvoicesInInputOrder(call[t].args, loc[t].allDocuments[i].residue,
                              documents[i].invoicesFileName,
                              loc[t].allDocuments[i].invoicesCreateUrl)
                       /\ documents[i].residueType = loc[t].allDocuments[i].residue
                       /\ loc[t].allDocuments[i].invoicesFileName = documents[i].invoicesFileName
            /\ HasReturned(t) => ret[t].value.s3 = loc[t].allDocuments

\* a submission returned whose last category had MaxInvoices invoices, the
\* first two of different names, which settled last first
C3_Witness ==
    /\ Running("t1", "createForm")
    /\ HasReturned("t1")
    /\ Len(loc["t1"].settled) = MaxInvoices
    /\ loc["t1"].settled[1] = MaxInvoices
    /\ LET names == call["t1"].args.rest[ResidueOrder[Len(ResidueOrder)]].invoicesFileName
       IN  Len(names) = MaxInvoices /\ names[1] # names[2]

\* the call threw while the reducer was working on a category
FailedMidDispatch(t) ==
    /\ Running(t, "createForm")
    /\ Done(t)
    /\ ret[t].kind = "throw"
    /\ ret[t].exception \in {"StorageFailure", "PersistenceFailure"}
    /\ ret[t].message \in {"video", "invoices", "document.create"}

IndexOf(r) == CHOOSE i \in 1..Len(ResidueOrder) : ResidueOrder[i] = r

\* C4: when a StorageGateway call or a Document create fails in category k the
\* call throws; the Form row and the Documents of categories 1..k-1 stay
\* stored, no Document of category k or later is stored, and no storage call
\* was made for a category after k.
C4_NoRollback ==
    \A t \in Tasks :
        FailedMidDispatch(t) =>
            LET k == loc[t].i
            IN  /\ k \in 1..Len(ResidueOrder)
                /\ forms = <<loc[t].form>>
                /\ forms[1].userId = loc[t].user.id
                /\ Len(documents) = k - 1
                /\ \A j \in 1..Len(documents) :
                       /\ documents[j].residueType = ResidueOrder[j]
                       /\ documents[j].formId = forms[1].id
                       /\ documents[j].amount = call[t].args.rest[ResidueOrder[j]].amount
                /\ \A n \in 1..Len(s3Calls) : IndexOf(s3Calls[n].residueType) <= k
                /\ effects[t].forms = 1 /\ effects[t].documents = k - 1

\* the video call of the third category failed after two Documents were stored
C4_Witness ==
    /\ FailedMidDispatch("t1")
    /\ ret["t1"].exception = "StorageFailure"
    /\ loc["t1"].i = 3
    /\ Len(documents) = 2
    /\ Len(forms) = 1

\* C7: a createForm call whose uploader identity belongs to no user throws
\* NotFound, and has written no Form row, no Document row and made no
\* StorageGateway call.
C7_UnknownUploader ==
    \A t \in Tasks :
        (Running(t, "createForm") /\ ~KnownUser(call[t].args)) =>
            /\ Threw(t, "NotFoundException")
            /\ ret[t].message = USER_NOT_FOUND
            /\ NothingProduced(t)

\* an unknown identity submitted evidence and was refused with NotFound
C7_Witness ==
    /\ Running("t1", "createForm")
    /\ call["t1"].args.authUserId = "auth-x"
    /\ \E r \in ResidueTypes : SuppliesEvidence(call["t1"].args, r)
    /\ Threw("t1", "NotFoundException")

\* the task takes a step of the call it is running after the step
StepOf(t) == pc'[t] # pc[t] \/ call'[t] # call[t] \/ ret'[t] # ret[t]

StoredForm(id) == CHOOSE f \in {forms[i] : i \in 1..Len(forms)} : f.id = id
IsStored(id) == \E i \in 1..Len(forms) : forms[i].id = id

\* how an authorizeForm call that is over ended
C5_LastFlagStands ==
    \A t \in Tasks :
        (Running(t, "authorizeForm") /\ Done(t) /\ IsStored(call[t].args.formId)) =>
            /\ ret[t].kind = "throw" => ret[t].exception = "PersistenceFailure"
            /\ ret[t].kind = "return" =>
                   /\ StoredForm(call[t].args.formId).isFormAuthorizedByAdmin
                          = call[t].args.isFormAuthorized
                   /\ ret[t].value = StoredForm(call[t].args.formId)

\* what a step of an authorizeForm call may change
C5_OnlyTheFlag ==
    \A t \in Tasks :
        (StepOf(t) /\ call'[t].op = "authorizeForm") =>
            /\ documents' = documents
            /\ s3Calls' = s3Calls
            /\ Len(forms') = Len(forms)
            /\ \A i \in 1..Len(forms) :
                   /\ [forms[i] EXCEPT !.isFormAuthorizedByAdmin =
                                           forms'[i].isFormAuthorizedByAdmin] = forms'[i]
                   /\ forms[i].id # call'[t].args.formId => forms'[i] = forms[i]

\* C5: after any sequence of authorizeForm calls on a stored form its
\* authorization flag is the flag of the last call; a call on a stored form is
\* never refused, whatever the flag was; and no step of authorizeForm changes a
\* Document row or any other Form field.
C5_AuthorizeForm == [] C5_LastFlagStands /\ [][C5_OnlyTheFlag]_vars

\* authorizeForm(id, false) returned for a form it found authorized
C5_Witness ==
    /\ Running("t1", "authorizeForm")
    /\ HasReturned("t1")
    /\ ~call["t1"].args.isFormAuthorized
    /\ loc["t1"].form.isFormAuthorizedByAdmin
    /\ ~StoredForm(call["t1"].args.formId).isFormAuthorizedByAdmin

ByFormId == {"authorizeForm", "submitFormImage", "createFormMetadata"}

\* a call by form identity whose form is not stored has thrown NotFound
C6_Thrown ==
    \A t \in Tasks :
        (call[t].op \in ByFormId /\ ~IsStored(call[t].args.formId)) =>
            /\ Threw(t, "NotFoundException")
            /\ ret[t].message = FORM_NOT_FOUND
            /\ effects[t] = NoEffects

\* the step that makes such a call leaves the store and the gateway alone
C6_NothingWritten ==
    \A t \in Tasks :
        (StepOf(t) /\ call'[t].op \in ByFormId /\ ~IsStored(call'[t].args.formId)) =>
            UNCHANGED <<forms, documents, s3Calls>>

\* C6: authorizeForm, submitFormImage and createFormMetadata called with the
\* identity of no stored form throw NotFound, change no Form or Document row
\* and make no StorageGateway call.
C6_FormNotFound == [] C6_Thrown /\ [][C6_NothingWritten]_vars

\* createFormMetadata was refused for an unknown form while forms are stored
C6_Witness ==
    /\ Running("t1", "createFormMetadata")
    /\ ~IsStored(call["t1"].args.formId)
    /\ Threw("t1", "NotFoundException")
    /\ forms # <<>>
    /\ documents # <<>>

\* the metadata URL stored is the upload URL of this call's storage request,
\* the latest of the log, without its signature
C8_StoredUrl ==
    \A t \in Tasks :
        (Running(t, "createFormMetadata") /\ HasReturned(t)) =>
            LET id == call[t].args.formId
                n == Len(s3Calls)
            IN  /\ s3Calls[n] = S3Call(id \o ".json", "", "metadata", publicBucket)
                /\ ret[t].value.createMetadataUrl =
                       StoredForm(id).formMetadataUrl \o "?X-Amz-Signature=" \o ToString(n)
                /\ StoredForm(id).formMetadataUrl # Null

\* what a step of a createFormMetadata call may change
C8_OnlyTheUrl ==
    \A t \in Tasks :
        (StepOf(t) /\ call'[t].op = "createFormMetadata") =>
            /\ documents' = documents
            /\ Len(forms') = Len(forms)
            /\ \A i \in 1..Len(forms) :
                   /\ [forms[i] EXCEPT !.formMetadataUrl = forms'[i].formMetadataUrl] = forms'[i]
                   /\ forms[i].id # call'[t].args.formId => forms'[i] = forms[i]

\* C8: however often createFormMetadata is called for a form, the Form holds
\* the one metadata URL the latest call computed, and every other Form field
\* and every Document is as a single call leaves it.
C8_MetadataIdempotent == [] C8_StoredUrl /\ [][C8_OnlyTheUrl]_vars

\* createFormMetadata returned for a form whose metadata URL was already set
C8_Witness ==
    /\ Running("t1", "createFormMetadata")
    /\ HasReturned("t1")
    /\ loc["t1"].form.formMetadataUrl # Null
    /\ documents # <<>>

\* C9: the attribute list of the body createFormMetadata returns is the wallet
\* attribute, the authorization attribute, then one attribute per Document
\* listed for the form, in the listed order: 2 + (number of Documents) long.
C9_AttributeList ==
    \A t \in Tasks :
        (Running(t, "createFormMetadata") /\ HasReturned(t)) =>
            LET id == call[t].args.formId
                attributes == ret[t].value.body.attributes
                listed == {i \in 1..Len(documents) : documents[i].formId = id}
                docs == listDocumentsFromForm(id)
            IN  /\ Len(attributes) = 2 + Cardinality(listed)
                /\ Len(docs) = Cardinality(listed)
                /\ attributes[1].trait_type = "Originating wallet"
                /\ attributes[1].value \in {StoredForm(id).walletAddress, "0x0"}
                /\ attributes[2].trait_type = "Audit"
                /\ attributes[2].value =
                       (IF StoredForm(id).isFormAuthorizedByAdmin
                        THEN "Verified" ELSE "Not Verified")
                /\ \A i \in 1..Len(docs) :
                       /\ attributes[2 + i].trait_type =
                              getResidueTitle(docs[i].residueType) \o " kgs"
                       /\ attributes[2 + i].value = ToString(docs[i].amount)

\* metadata was returned for a form with one Document per category
C9_Witness ==
    /\ Running("t1", "createFormMetadata")
    /\ HasReturned("t1")
    /\ Len(ret["t1"].value.body.attributes) = 2 + Len(ResidueOrder)

\* the sum of the amount of the Documents whose Form a user of the profile
\* type owns
DocumentTotal(profileType) ==
    LET owned == {i \in 1..Len(documents) :
                     \E f \in 1..Len(forms) :
                         /\ forms[f].id = documents[i].formId
                         /\ \E u \in Users : u.id = forms[f].userId
                                             /\ u.profileType = profileType}
        rows == SelectSeqBy(documents, {documents[i] : i \in owned})
    IN  SumSeq([k \in 1..Len(rows) |-> rows[k].amount])

Aggregates == {"aggregateFormByUserProfile", "listFormDetails"}

\* C10: the aggregate that aggregate reporting returns for RECYCLER and for
\* WASTE_GENERATOR is the sum of the amount of the Documents whose Form a user
\* of that profile type owns.
C10_AggregateIsDocumentTotal ==
    \A t \in Tasks :
        (call[t].op \in Aggregates /\ HasReturned(t)) =>
            /\ Len(ret[t].value) = 2
            /\ ret[t].value[1] = [id |-> RECYCLER, data |-> JsNumber(DocumentTotal(RECYCLER))]
            /\ ret[t].value[2] = [id |-> WASTE_GENERATOR,
                                  data |-> JsNumber(DocumentTotal(WASTE_GENERATOR))]

\* the same, of FormsService.aggregateFormByUserProfile alone
AggregateByDocumentsIsDocumentTotal ==
    \A t \in Tasks :
        (call[t].op = "aggregateFormByUserProfile" /\ HasReturned(t)) =>
            /\ ret[t].value[1] = [id |-> RECYCLER, data |-> JsNumber(DocumentTotal(RECYCLER))]
            /\ ret[t].value[2] = [id |-> WASTE_GENERATOR,
                                  data |-> JsNumber(DocumentTotal(WASTE_GENERATOR))]

\* position of the profile type in the list the aggregates return
AggregateIndex(profileType) == IF profileType = RECYCLER THEN 1 ELSE 2

\* no stored Form belongs to a user of the profile type
NoFormOf(profileType) == FormsByProfile(profileType) = <<>>

\* C11: for a profile type no stored Form belongs to, aggregate reporting
\* returns the number 0: the call does not throw, the value is not absent, and
\* it is not the sum of the Documents of another profile type.
C11_ZeroWithoutForms ==
    \A t \in Tasks :
        (call[t].op \in Aggregates /\ Done(t)) =>
            /\ ret[t].kind = "return"
            /\ \A profileType \in {RECYCLER, WASTE_GENERATOR} :
                   NoFormOf(profileType) =>
                       ret[t].value[AggregateIndex(profileType)]
                           = [id |-> profileType, data |-> JsNumber(0)]

\* the same, of FormsService.aggregateFormByUserProfile alone
AggregateByDocumentsZeroWithoutForms ==
    \A t \in Tasks :
        (call[t].op = "aggregateFormByUserProfile" /\ Done(t)) =>
            /\ ret[t].kind = "return"
            /\ \A profileType \in {RECYCLER, WASTE_GENERATOR} :
                   NoFormOf(profileType) =>
                       ret[t].value[AggregateIndex(profileType)]
                           = [id |-> profileType, data |-> JsNumber(0)]

UserOf(input) == CHOOSE u \in Users : u.authUserId = input.authUserId

\* C12: a createForm call without evidence by a user of any profile type is
\* not refused: it fails only if the Form create itself fails, and when it
\* returns exactly one Form row is stored, with the identity of the resolved
\* user and the wallet address supplied, and no Document row; the declared
\* amounts are in no row.
C12_QuantityOnly ==
    \A t \in Tasks :
        (Running(t, "createForm") /\ KnownUser(call[t].args)
             /\ NoEvidence(call[t].args) /\ Done(t)) =>
            /\ ret[t].kind = "throw" =>
                   ret[t].exception = "PersistenceFailure" /\ ret[t].message = "form.create"
            /\ ret[t].kind = "return" =>
                   /\ Len(forms) = 1
                   /\ forms[1].userId = UserOf(call[t].args).id
                   /\ forms[1].walletAddress = call[t].args.walletAddress
                   /\ \A r \in ResidueTypes : forms[1].kgs[r] = 0
                   /\ documents = <<>>
                   /\ effects[t] = [forms |-> 1, documents |-> 0, s3 |-> 0]
                   /\ ret[t].value = [form |-> forms[1], s3 |-> <<>>]

\* a user who is neither RECYCLER nor WASTE_GENERATOR declared amounts without
\* evidence, and the call returned
C12_Witness ==
    /\ Running("t1", "createForm")
    /\ KnownUser(call["t1"].args)
    /\ ProfileTypeOf(call["t1"].args) \notin {RECYCLER, WASTE_GENERATOR}
    /\ NoEvidence(call["t1"].args)
    /\ call["t1"].args.rest["PLASTIC"].amount = 10
    /\ call["t1"].args.walletAddress = "0xA"
    /\ HasReturned("t1")
    /\ Len(forms) = 1

\* a createForm call of a known user that supplies evidence in some category
WithEvidence(t) ==
    /\ Running(t, "createForm")
    /\ KnownUser(call[t].args)
    /\ \E r \in ResidueTypes : SuppliesEvidence(call[t].args, r)

\* C13: a createForm call never stores two Documents for one (form, category)
\* pair, and when a call with evidence returns, exactly one Document is stored
\* and exactly one record is returned for every category of the input, those
\* without evidence included.
C13_OneDocumentPerCategory ==
    \A t \in Tasks :
        Running(t, "createForm") =>
            /\ \A i, j \in 1..Len(documents) :
                   (documents[i].formId = documents[j].formId
                        /\ documents[i].residueType = documents[j].residueType) => i = j
            /\ (WithEvidence(t) /\ HasReturned(t)) =>
                   /\ Len(documents) = Cardinality(ResidueTypes)
                   /\ Len(ret[t].value.s3) = Cardinality(ResidueTypes)
                   /\ effects[t].documents = Cardinality(ResidueTypes)
                   /\ \A r \in ResidueTypes :
                          /\ \E i \in 1..Len(documents) :
                                 /\ documents[i].residueType = r
                                 /\ documents[i].formId = ret[t].value.form.id
                                 /\ documents[i].amount = call[t].args.rest[r].amount
                          /\ Cardinality({i \in 1..Len(ret[t].value.s3) :
                                             ret[t].value.s3[i].residue = r}) = 1

\* a call returned whose evidence was all in one category: the other
\* categories, one of them with amount 0, have their Document too
C13_Witness ==
    /\ WithEvidence("t1")
    /\ HasReturned("t1")
    /\ Cardinality({r \in ResidueTypes : SuppliesEvidence(call["t1"].args, r)}) = 1
    /\ \E i \in 1..Len(documents) :
           /\ ~SuppliesEvidence(call["t1"].args, documents[i].residueType)
           /\ documents[i].amount = 0
    /\ Len(documents) = Cardinality(ResidueTypes)

\* the createForm call has entered its reduce
InReduce(t) == Running(t, "createForm") /\ loc[t] # NoLoc /\ loc[t].i >= 1

\* the storage calls of the log the call waits for
Outstanding(t) ==
    IF ~InReduce(t) \/ Done(t) THEN {}
    ELSE (IF pc[t] = "video" THEN {loc[t].videoCall} ELSE {})
             \cup {loc[t].invBase + k : k \in loc[t].pending}

\* key is what a storage call of the log made for name in category r returned
KeyIssuedFor(name, r, key) ==
    \E n \in 1..Len(s3Calls) :
        /\ s3Calls[n].fileName = name
        /\ s3Calls[n].residueType = r
        /\ createPreSignedObjectUrl(n).fileName = key

\* the number of files category r of the input supplies
SuppliedFiles(input, r) ==
    (IF Truthy(input.rest[r].videoFileName) THEN 1 ELSE 0)
        + Len(input.rest[r].invoicesFileName)

CallsFor(r) == {n \in 1..Len(s3Calls) : s3Calls[n].residueType = r}

\* C14: when the Document of a category is about to be stored every storage
\* call made for the category has returned, and every stored Document holds
\* the storage-assigned name of each file its category supplied.
C14_JoinBeforeDocument ==
    \A t \in Tasks :
        InReduce(t) =>
            /\ pc[t] = "document.create" =>
                   /\ Outstanding(t) = {}
                   /\ Cardinality(CallsFor(ResidueOrder[loc[t].i]))
                          = SuppliedFiles(call[t].args, ResidueOrder[loc[t].i])
            /\ pc[t] \in {"video", "invoices"} => Len(documents) < loc[t].i
            /\ \A j \in 1..Len(documents) :
                   LET r == documents[j].residueType
                       props == call[t].args.rest[r]
                   IN  /\ IF Truthy(props.videoFileName)
                          THEN KeyIssuedFor(props.videoFileName, r, documents[j].videoFileName)
                          ELSE documents[j].videoFileName = Null
                       /\ Len(documents[j].invoicesFileName) = Len(props.invoicesFileName)
                       /\ \A k \in 1..Len(props.invoicesFileName) :
                              KeyIssuedFor(props.invoicesFileName[k], r,
                                           documents[j].invoicesFileName[k])

\* the Document of a category with a video and MaxInvoices invoices is stored
C14_Witness ==
    /\ InReduce("t1")
    /\ \E j \in 1..Len(documents) :
           /\ documents[j].videoFileName # Null
           /\ Len(documents[j].invoicesFileName) = MaxInvoices
           /\ SuppliedFiles(call["t1"].args, documents[j].residueType) = MaxInvoices + 1

\* the call works on a category that supplies a video and invoices
VideoAndInvoices(t) ==
    /\ InReduce(t)
    /\ Truthy(CurrentProps(t).videoFileName)
    /\ Len(CurrentProps(t).invoicesFileName) > 0

\* the storage calls of the log made after the video call of the category the
\* call works on: its invoice calls
InvoiceCallsMade(t) ==
    {n \in CallsFor(ResidueOrder[loc[t].i]) : n > loc[t].videoCall}

C17_KeysAndUrls ==
    \A t \in Tasks :
        (WithEvidence(t) /\ HasReturned(t)) =>
            \A j \in 1..Len(ret[t].value.s3) :
                LET record == ret[t].value.s3[j]
                    r == record.residue
                    props == call[t].args.rest[r]
                    names == props.invoicesFileName
                IN  /\ documents[j].residueType = r
                    /\ record.videoFileName = documents[j].videoFileName
                    /\ record.invoicesFileName = documents[j].invoicesFileName
                    /\ IF Truthy(props.videoFileName)
                       THEN /\ IssuedFor(props.videoFileName, r,
                                         documents[j].videoFileName, record.videoCreateUrl)
                            /\ documents[j].videoFileName
                                   \notin {props.videoFileName, record.videoCreateUrl}
                       ELSE /\ documents[j].videoFileName = Null
                            /\ record.videoCreateUrl = ""
                    /\ Len(documents[j].invoicesFileName) = Len(names)
                    /\ Len(record.invoicesCreateUrl) = Len(names)
                    /\ \A k \in 1..Len(names) :
                           /\ IssuedFor(names[k], r, documents[j].invoicesFileName[k],
                                        record.invoicesCreateUrl[k])
                           /\ documents[j].invoicesFileName[k]
                                  \notin {names[k], record.invoicesCreateUrl[k]}

\* a call returned that gave a video in one category and an empty video name
\* with MaxInvoices invoices in another
C17_Witness ==
    /\ WithEvidence("t1")
    /\ HasReturned("t1")
    /\ \E r \in ResidueTypes : Truthy(call["t1"].args.rest[r].videoFileName)
    /\ \E j \in 1..Len(ret["t1"].value.s3) :
           /\ call["t1"].args.rest[ret["t1"].value.s3[j].residue].videoFileName = ""
           /\ Len(ret["t1"].value.s3[j].invoicesCreateUrl) = MaxInvoices
           /\ ret["t1"].value.s3[j].videoCreateUrl = ""

\* the storage calls category r of the input asks for, in the order createForm
\* makes them
ExpectedCalls(input, r) ==
    (IF Truthy(input.rest[r].videoFileName)
     THEN <<S3Call(input.rest[r].videoFileName, r, Null, Null)>> ELSE <<>>)
        \o [k \in 1..Len(input.rest[r].invoicesFileName) |->
               S3Call(input.rest[r].invoicesFileName[k], r, Null, Null)]

\* the storage calls of the log made for category r
LogFor(r) == SelectSeqBy(s3Calls, {c \in {s3Calls[n] : n \in 1..Len(s3Calls)} : c.residueType = r})

IsPrefix(a, b) == Len(a) <= Len(b) /\ a = SubSeq(b, 1, Len(a))

TotalSupplied(input) ==
    SumSeq([i \in 1..Len(ResidueOrder) |-> SuppliedFiles(input, ResidueOrder[i])])

AtWrite(t, op, at, id) ==
    call[t].op = op /\ pc[t] = at /\ call[t].args.formId = id

\* what a step may change of the Form rows stored before it
FormFrame ==
    /\ Len(forms') >= Len(forms)
    /\ \A i \in 1..Len(forms) :
           /\ forms'[i].id = forms[i].id
           /\ forms'[i].userId = forms[i].userId
           /\ forms'[i].walletAddress = forms[i].walletAddress
           /\ forms'[i].createdAt = forms[i].createdAt
           /\ forms'[i].isFormAuthorizedByAdmin # forms[i].isFormAuthorizedByAdmin =>
                  \E t \in Tasks : AtWrite(t, "authorizeForm", "authorize.update", forms[i].id)
           /\ forms'[i].formMetadataUrl # forms[i].formMetadataUrl =>
                  \E t \in Tasks : AtWrite(t, "createFormMetadata", "metadata.update", forms[i].id)

\* C19: no step of any operation changes the user reference, the wallet
\* address or the creation timestamp of a stored Form; only the update of
\* authorizeForm changes its authorization flag and only the update of
\* createFormMetadata changes its metadata URL.
C19_FormFrame == [][FormFrame]_vars

\* a stored Form has been authorized and has had its metadata URL set
C19_Witness ==
    /\ forms # <<>>
    /\ forms[1].isFormAuthorizedByAdmin
    /\ forms[1].formMetadataUrl # Null
    /\ forms[1].walletAddress = "0xA"

\* what a step may do to the Document rows: add rows after the stored ones
DocumentsKept == IsPrefix(documents, documents')

DocumentsNeverChange == [][DocumentsKept]_vars

\* the createForm call of the task has stored its Form
HasForm(t) == Running(t, "createForm") /\ loc[t] # NoLoc /\ loc[t].form # NoRow

\* the Documents stored for the form of identity id, in the order stored
DocumentsOf(id) ==
    SelectSeqBy(documents, {d \in {documents[i] : i \in 1..Len(documents)} : d.formId = id})

\* the await the call is suspended at can resolve, whatever the other calls do
CanResume(t) ==
    /\ pc[t] = "form.create" => ENABLED createForm_form(t)
    /\ pc[t] = "video" => ENABLED createForm_video(t)
    /\ pc[t] = "invoices" => \A k \in loc[t].pending : ENABLED createForm_invoice(t, k)
    /\ pc[t] = "document.create" => ENABLED createForm_document(t)

BothReturned(a, b) ==
    /\ call[a].op = "authorizeForm" /\ HasReturned(a)
    /\ call[b].op = "createFormMetadata" /\ HasReturned(b)
    /\ call[a].args.formId = call[b].args.formId

\* C22: however the steps of an authorizeForm call and of a createFormMetadata
\* call on the same form interleave, once both have returned the Form's
\* authorization flag is the flag passed to authorizeForm and its metadata URL
\* is the URL createFormMetadata computed; no other Form field has changed.
C22_NoLostUpdate ==
    \A a, b \in Tasks :
        BothReturned(a, b) =>
            LET form == StoredForm(call[a].args.formId)
            IN  /\ form.isFormAuthorizedByAdmin = call[a].args.isFormAuthorized
                /\ form.formMetadataUrl = loc[b].formMetadataUrl
                /\ form.formMetadataUrl # Null
                /\ form = [loc[a].form EXCEPT
                              !.isFormAuthorizedByAdmin = call[a].args.isFormAuthorized,
                              !.formMetadataUrl = loc[b].formMetadataUrl]

\* both calls read the form before either wrote it: authorizeForm(id, true)
\* found no metadata URL and createFormMetadata found the form not authorized
C22_Witness ==
    /\ BothReturned("t1", "t2")
    /\ call["t1"].args.isFormAuthorized
    /\ loc["t1"].form.formMetadataUrl = Null
    /\ ~loc["t2"].form.isFormAuthorizedByAdmin
    /\ StoredForm(call["t1"].args.formId).isFormAuthorizedByAdmin

====
